---- MODULE Spec2Model ----
(***************************************************************************)
(* Model of src/java.base/share/native/libnio/ch/UnixDomainSocketAddress.c *)
(*                                                                         *)
(* The file caches a global class reference, a field ID and a constructor  *)
(* ID in three process-wide variables behind a plain int flag.  Each       *)
(* statement of Java_java_nio_channels_UnixDomainSocketAddress_init is one  *)
(* action; a thread's position in the function is pc[t], named after the   *)
(* source line it is about to execute.                                     *)
(***************************************************************************)
EXTENDS Integers, Sequences, FiniteSets, TLC

\* ---- bounds of the model ------------------------------------------------
NumThreads == 2
MaxCalls == 3

Threads == 1..NumThreads

\* ---- values of the JNI handles --------------------------------------------
NULL == 0
LocalRef == 1
PathFieldID == 1
CtorMethodID == 1

VARIABLES
    udsa_class,        \* jclass udsa_class            (line 35)
    udsa_ctorID,       \* jmethodID udsa_ctorID        (line 36)
    udsa_pathID,       \* jfieldID udsa_pathID         (line 37)
    udsa_initialized,  \* static int udsa_initialized  (line 39)
    pc,                \* per thread: next line to execute, or "idle"/"ret"
    c,                 \* per thread: the local  jclass c  (line 49)
    rclass,            \* per thread: value this call stored to udsa_class
    rid,               \* per thread: value this call last stored to an ID
    globalRefs,        \* global references created by NewGlobalRef, alive
    calls,             \* number of calls of init started so far
    nLookups,          \* number of invocations of each JNI function
    writes,            \* number of assignments to each global handle
    trace,             \* per thread: the steps of the current call, in order
    wrote,             \* per thread: the globals the current call assigned
    entry,             \* per thread: the globals when the call was made
    guardFlag,         \* per thread: the flag as read at line 48 (2: unread)
    nullAt,            \* per thread: first JNI function that returned NULL
    result,            \* per thread: how the call ended
    afterFail,         \* per thread: the call before this one had failed
    lastFailed,        \* the most recently returned call had failed
    anyNull,           \* some JNI function has returned NULL so far
    passed,            \* number of calls that read the flag as 0
    failed,            \* number of calls that returned at a CHECK_NULL
    snap               \* the handles when the first successful call returned

vars == <<udsa_class, udsa_ctorID, udsa_pathID, udsa_initialized, pc, c,
          rclass, rid, globalRefs, calls, nLookups, writes, trace, wrote,
          entry, guardFlag, nullAt, result, afterFail, lastFailed, anyNull,
          passed, failed, snap>>

globals == <<udsa_class, udsa_ctorID, udsa_pathID, udsa_initialized>>
handles == <<udsa_class, udsa_pathID, udsa_ctorID>>
locals  == <<c, rclass, rid>>
counts  == <<calls, passed, failed>>
history == <<lastFailed, snap>>

JNIFunctions == {"FindClass", "NewGlobalRef", "GetFieldID", "GetMethodID"}
Handles == {"udsa_class", "udsa_pathID", "udsa_ctorID"}

FullSequence ==
    <<"FindClass", "NewGlobalRef", "GetFieldID", "GetMethodID", "SetFlag">>

IsPrefix(s, full) ==
    /\ Len(s) <= Len(full)
    /\ \A i \in 1..Len(s) : s[i] = full[i]

\* The state after the library is loaded: zero-initialised globals.
Init ==
    /\ udsa_class = NULL
    /\ udsa_ctorID = NULL
    /\ udsa_pathID = NULL
    /\ udsa_initialized = 0
    /\ pc = [t \in Threads |-> "idle"]
    /\ c = [t \in Threads |-> NULL]
    /\ rclass = [t \in Threads |-> NULL]
    /\ rid = [t \in Threads |-> NULL]
    /\ globalRefs = {}
    /\ calls = 0
    /\ nLookups = [f \in JNIFunctions |-> 0]
    /\ writes = [h \in Handles |-> 0]
    /\ trace = [t \in Threads |-> <<>>]
    /\ wrote = [t \in Threads |-> {}]
    /\ entry = [t \in Threads |-> <<NULL, NULL, NULL, 0>>]
    /\ guardFlag = [t \in Threads |-> 2]
    /\ nullAt = [t \in Threads |-> "none"]
    /\ result = [t \in Threads |-> "none"]
    /\ afterFail = [t \in Threads |-> FALSE]
    /\ lastFailed = FALSE
    /\ anyNull = FALSE
    /\ passed = 0
    /\ failed = 0
    /\ snap = <<NULL, NULL, NULL>>

\* CHECK_NULL(x): return from the function when x is NULL.
CHECK_NULL(x, next) == IF x = NULL THEN "ret" ELSE next

\* The value a racing read of a global yields: the value in memory, or the
\* value this thread stored in the statement before (kept in a register).
\* Without a concurrent writer the two are the same.
RacyRead(mem, own) == {mem, own}

\* A JNI lookup on a valid class yields the ID or NULL, as the environment
\* allows (Fail is the set of permitted "returns NULL" outcomes); on a NULL
\* class its behaviour is undefined and any outcome is possible.
LookupResults(cls, id, Fail) ==
    IF cls = NULL THEN {NULL, id}
    ELSE {IF f THEN NULL ELSE id : f \in Fail}

NoteNull(t, f, v) ==
    /\ nullAt' = [nullAt EXCEPT ![t] =
                    IF v = NULL /\ @ = "none" THEN f ELSE @]
    /\ anyNull' = (anyNull \/ v = NULL)

Invoke(t, f) ==
    /\ nLookups' = [nLookups EXCEPT ![f] = @ + 1]
    /\ trace' = [trace EXCEPT ![t] = Append(@, f)]

Leave(t, target) ==
    /\ pc' = [pc EXCEPT ![t] = target]
    /\ result' = [result EXCEPT ![t] = IF target = "ret" THEN "fail" ELSE @]

\* The runtime calls the native method.
Enter(t) ==
    /\ pc[t] = "idle"
    /\ calls < MaxCalls
    /\ calls' = calls + 1
    /\ pc' = [pc EXCEPT ![t] = "L48"]
    /\ c' = [c EXCEPT ![t] = NULL]
    /\ rclass' = [rclass EXCEPT ![t] = NULL]
    /\ rid' = [rid EXCEPT ![t] = NULL]
    /\ trace' = [trace EXCEPT ![t] = <<>>]
    /\ wrote' = [wrote EXCEPT ![t] = {}]
    /\ entry' = [entry EXCEPT ![t] = globals]
    /\ guardFlag' = [guardFlag EXCEPT ![t] = 2]
    /\ nullAt' = [nullAt EXCEPT ![t] = "none"]
    /\ result' = [result EXCEPT ![t] = "none"]
    /\ afterFail' = [afterFail EXCEPT ![t] = lastFailed]
    /\ UNCHANGED <<globals, globalRefs, nLookups, writes, lastFailed,
                   anyNull, passed, failed, snap>>

\* Calls that do not overlap: a call starts only when none is in progress.
SeqCall(t) ==
    /\ \A u \in Threads : pc[u] = "idle"
    /\ Enter(t)

\* Calls that may overlap: a thread calls whenever it is not in a call.
ConcCall(t) == Enter(t)

\* line 48:  if (!udsa_initialized) {
Guard_NoCheck(t) ==
    /\ pc[t] = "L48"
    /\ guardFlag' = [guardFlag EXCEPT ![t] = udsa_initialized]
    /\ pc' = [pc EXCEPT ![t] = "L49"]
    /\ result' = result
    /\ passed' = passed + 1
    /\ UNCHANGED <<globals, locals, globalRefs, calls, nLookups, writes,
                   trace, wrote, entry, nullAt, afterFail, lastFailed,
                   anyNull, failed, snap>>

Guard_Inverted(t) ==
    /\ pc[t] = "L48"
    /\ guardFlag' = [guardFlag EXCEPT ![t] = udsa_initialized]
    /\ pc' = [pc EXCEPT ![t] = IF udsa_initialized # 0 THEN "L49" ELSE "ret"]
    /\ result' = [result EXCEPT ![t] =
                    IF udsa_initialized # 0 THEN @ ELSE "noop"]
    /\ passed' = IF udsa_initialized = 0 THEN passed + 1 ELSE passed
    /\ UNCHANGED <<globals, locals, globalRefs, calls, nLookups, writes,
                   trace, wrote, entry, nullAt, afterFail, lastFailed,
                   anyNull, failed, snap>>

Guard_Resume(t) ==
    /\ pc[t] = "L48"
    /\ guardFlag' = [guardFlag EXCEPT ![t] = udsa_initialized]
    /\ pc' = [pc EXCEPT ![t] =
                IF udsa_initialized # 0 THEN "ret"
                ELSE IF udsa_class # NULL THEN "L54" ELSE "L49"]
    /\ result' = [result EXCEPT ![t] =
                    IF udsa_initialized = 0 THEN @ ELSE "noop"]
    /\ passed' = IF udsa_initialized = 0 THEN passed + 1 ELSE passed
    /\ UNCHANGED <<globals, locals, globalRefs, calls, nLookups, writes,
                   trace, wrote, entry, nullAt, afterFail, lastFailed,
                   anyNull, failed, snap>>

Guard(t) ==
    /\ pc[t] = "L48"
    /\ guardFlag' = [guardFlag EXCEPT ![t] = udsa_initialized]
    /\ pc' = [pc EXCEPT ![t] = IF udsa_initialized = 0 THEN "L49" ELSE "ret"]
    /\ result' = [result EXCEPT ![t] =
                    IF udsa_initialized = 0 THEN @ ELSE "noop"]
    /\ passed' = IF udsa_initialized = 0 THEN passed + 1 ELSE passed
    /\ UNCHANGED <<globals, locals, globalRefs, calls, nLookups, writes,
                   trace, wrote, entry, nullAt, afterFail, lastFailed,
                   anyNull, failed, snap>>

\* line 49:  jclass c = (*env)->FindClass(env, "java/nio/channels/...");
FindClass(t, Fail) ==
    /\ pc[t] = "L49"
    /\ \E f \in Fail :
         LET v == IF f THEN NULL ELSE LocalRef IN
         /\ c' = [c EXCEPT ![t] = v]
         /\ NoteNull(t, "FindClass", v)
    /\ Invoke(t, "FindClass")
    /\ pc' = [pc EXCEPT ![t] = "L50"]
    /\ UNCHANGED <<globals, rclass, rid, globalRefs, writes, wrote, entry,
                   guardFlag, result, afterFail, counts, history>>

\* line 50:  CHECK_NULL(c);
CheckC_Missing(t) ==
    /\ pc[t] = "L50"
    /\ Leave(t, "L51")
    /\ failed' = failed
    /\ UNCHANGED <<globals, locals, globalRefs, calls, nLookups, writes,
                   trace, wrote, entry, guardFlag, nullAt, afterFail,
                   lastFailed, anyNull, passed, snap>>

CheckC(t) ==
    /\ pc[t] = "L50"
    /\ Leave(t, CHECK_NULL(c[t], "L51"))
    /\ failed' = IF c[t] = NULL THEN failed + 1 ELSE failed
    /\ UNCHANGED <<globals, locals, globalRefs, calls, nLookups, writes,
                   trace, wrote, entry, guardFlag, nullAt, afterFail,
                   lastFailed, anyNull, passed, snap>>

\* line 51:  udsa_class = (*env)->NewGlobalRef(env, c);
\* NewGlobalRef creates a new global reference on every call, and returns
\* NULL when it is given NULL or the system is out of memory.
NewGlobalRef(t, Fail) ==
    /\ pc[t] = "L51"
    /\ \E f \in Fail :
         LET v == IF f \/ c[t] = NULL THEN NULL
                  ELSE Cardinality(globalRefs) + 1 IN
         /\ udsa_class' = v
         /\ rclass' = [rclass EXCEPT ![t] = v]
         /\ globalRefs' = IF v = NULL THEN globalRefs ELSE globalRefs \cup {v}
         /\ NoteNull(t, "NewGlobalRef", v)
    /\ Invoke(t, "NewGlobalRef")
    /\ writes' = [writes EXCEPT !["udsa_class"] = @ + 1]
    /\ wrote' = [wrote EXCEPT ![t] = @ \cup {"udsa_class"}]
    /\ pc' = [pc EXCEPT ![t] = "L52"]
    /\ UNCHANGED <<udsa_ctorID, udsa_pathID, udsa_initialized, c, rid, entry,
                   guardFlag, result, afterFail, counts, history>>

\* line 52:  CHECK_NULL(udsa_class);
CheckClass(t) ==
    /\ pc[t] = "L52"
    /\ \E v \in RacyRead(udsa_class, rclass[t]) :
         /\ Leave(t, CHECK_NULL(v, "L54"))
         /\ failed' = IF v = NULL THEN failed + 1 ELSE failed
    /\ UNCHANGED <<globals, locals, globalRefs, calls, nLookups, writes,
                   trace, wrote, entry, guardFlag, nullAt, afterFail,
                   lastFailed, anyNull, passed, snap>>

\* line 54:  udsa_pathID = (*env)->GetFieldID(env, udsa_class, "pathname",
\*                                            "Ljava/lang/String;");
GetFieldID(t, Fail) ==
    /\ pc[t] = "L54"
    /\ \E cls \in RacyRead(udsa_class, rclass[t]) :
       \E v \in LookupResults(cls, PathFieldID, Fail) :
         /\ udsa_pathID' = v
         /\ rid' = [rid EXCEPT ![t] = v]
         /\ NoteNull(t, "GetFieldID", v)
    /\ Invoke(t, "GetFieldID")
    /\ writes' = [writes EXCEPT !["udsa_pathID"] = @ + 1]
    /\ wrote' = [wrote EXCEPT ![t] = @ \cup {"udsa_pathID"}]
    /\ pc' = [pc EXCEPT ![t] = "L55"]
    /\ UNCHANGED <<udsa_class, udsa_ctorID, udsa_initialized, c, rclass,
                   globalRefs, entry, guardFlag, result, afterFail, counts,
                   history>>

\* line 55:  CHECK_NULL(udsa_pathID);
CheckPath_Missing(t) ==
    /\ pc[t] = "L55"
    /\ Leave(t, "L57")
    /\ failed' = failed
    /\ UNCHANGED <<globals, locals, globalRefs, calls, nLookups, writes,
                   trace, wrote, entry, guardFlag, nullAt, afterFail,
                   lastFailed, anyNull, passed, snap>>

CheckPath(t) ==
    /\ pc[t] = "L55"
    /\ \E v \in RacyRead(udsa_pathID, rid[t]) :
         /\ Leave(t, CHECK_NULL(v, "L57"))
         /\ failed' = IF v = NULL THEN failed + 1 ELSE failed
    /\ UNCHANGED <<globals, locals, globalRefs, calls, nLookups, writes,
                   trace, wrote, entry, guardFlag, nullAt, afterFail,
                   lastFailed, anyNull, passed, snap>>

\* line 57:  udsa_ctorID = (*env)->GetMethodID(env, udsa_class, "<init>",
\*                                             "(Ljava/lang/String;)V");
GetMethodID(t, Fail) ==
    /\ pc[t] = "L57"
    /\ \E cls \in RacyRead(udsa_class, rclass[t]) :
       \E v \in LookupResults(cls, CtorMethodID, Fail) :
         /\ udsa_ctorID' = v
         /\ rid' = [rid EXCEPT ![t] = v]
         /\ NoteNull(t, "GetMethodID", v)
    /\ Invoke(t, "GetMethodID")
    /\ writes' = [writes EXCEPT !["udsa_ctorID"] = @ + 1]
    /\ wrote' = [wrote EXCEPT ![t] = @ \cup {"udsa_ctorID"}]
    /\ pc' = [pc EXCEPT ![t] = "L58"]
    /\ UNCHANGED <<udsa_class, udsa_pathID, udsa_initialized, c, rclass,
                   globalRefs, entry, guardFlag, result, afterFail, counts,
                   history>>

\* line 58:  CHECK_NULL(udsa_ctorID);
CheckCtor_Missing(t) ==
    /\ pc[t] = "L58"
    /\ Leave(t, "L60")
    /\ failed' = failed
    /\ UNCHANGED <<globals, locals, globalRefs, calls, nLookups, writes,
                   trace, wrote, entry, guardFlag, nullAt, afterFail,
                   lastFailed, anyNull, passed, snap>>

CheckCtor(t) ==
    /\ pc[t] = "L58"
    /\ \E v \in RacyRead(udsa_ctorID, rid[t]) :
         /\ Leave(t, CHECK_NULL(v, "L60"))
         /\ failed' = IF v = NULL THEN failed + 1 ELSE failed
    /\ UNCHANGED <<globals, locals, globalRefs, calls, nLookups, writes,
                   trace, wrote, entry, guardFlag, nullAt, afterFail,
                   lastFailed, anyNull, passed, snap>>

\* line 60:  udsa_initialized = 1;
SetFlag(t) ==
    /\ pc[t] = "L60"
    /\ udsa_initialized' = 1
    /\ trace' = [trace EXCEPT ![t] = Append(@, "SetFlag")]
    /\ pc' = [pc EXCEPT ![t] = "ret"]
    /\ result' = [result EXCEPT ![t] = "ok"]
    /\ UNCHANGED <<handles, locals, globalRefs, calls, nLookups, writes,
                   wrote, entry, guardFlag, nullAt, afterFail, lastFailed,
                   anyNull, passed, failed, snap>>

\* lines 61-62: the function returns to the runtime.
Return(t) ==
    /\ pc[t] = "ret"
    /\ pc' = [pc EXCEPT ![t] = "idle"]
    /\ lastFailed' = (result[t] = "fail")
    /\ snap' = IF result[t] = "ok" /\ snap = <<NULL, NULL, NULL>>
               THEN handles ELSE snap
    /\ UNCHANGED <<globals, locals, globalRefs, calls, nLookups, writes,
                   trace, wrote, entry, guardFlag, nullAt, result, afterFail,
                   anyNull, passed, failed>>

\* One statement of the function, executed by thread t.
Step(t, Fail) ==
    \/ Guard(t)
    \/ FindClass(t, Fail)
    \/ CheckC(t)
    \/ NewGlobalRef(t, Fail)
    \/ CheckClass(t)
    \/ GetFieldID(t, Fail)
    \/ CheckPath(t)
    \/ GetMethodID(t, Fail)
    \/ CheckCtor(t)
    \/ SetFlag(t)
    \/ Return(t)

\* Sequential calls; every JNI function may succeed or return NULL.
Next == \E t \in Threads : SeqCall(t) \/ Step(t, BOOLEAN)
Spec == Init /\ [][Next]_vars

\* Overlapping calls; every JNI function may succeed or return NULL.
NextConc == \E t \in Threads : ConcCall(t) \/ Step(t, BOOLEAN)
SpecConc == Init /\ [][NextConc]_vars

\* Overlapping calls; every JNI function succeeds.
NextConcOK == \E t \in Threads : ConcCall(t) \/ Step(t, {FALSE})
SpecConcOK == Init /\ [][NextConcOK]_vars

\* ---- properties ----------------------------------------------------------

InCall(t) == pc[t] # "idle"
AllNonNull == udsa_class # NULL /\ udsa_pathID # NULL /\ udsa_ctorID # NULL

\* C1: over sequential calls whose JNI functions may each return NULL, in
\* every reachable state udsa_initialized = 1 implies that udsa_class,
\* udsa_pathID and udsa_ctorID are all non-null.
C1_FlagImpliesHandles == udsa_initialized = 1 => AllNonNull

\* The flag is set after at least one earlier call failed half-way.
C1_Witness == udsa_initialized = 1 /\ failed >= 1 /\ AllNonNull

\* C2: a call made when udsa_initialized is already 1 invokes no JNI
\* function, assigns no global, leaves the four globals as they were when
\* the call was made, and does not fail.
C2_InitializedCallIsNoOp ==
    \A t \in Threads :
        (InCall(t) /\ entry[t][4] = 1) =>
            /\ pc[t] \in {"L48", "ret"}
            /\ trace[t] = <<>>
            /\ wrote[t] = {}
            /\ nullAt[t] = "none"
            /\ result[t] \in {"none", "noop"}
            /\ globals = entry[t]

\* A call made with the flag set has reached its return.
C2_Witness ==
    \E t \in Threads :
        pc[t] = "ret" /\ entry[t][4] = 1 /\ result[t] = "noop"

C4_TypeLookupFailure ==
    \A t \in Threads :
        (InCall(t) /\ nullAt[t] = "FindClass") =>
            /\ pc[t] \in {"L50", "ret"}
            /\ trace[t] = <<"FindClass">>
            /\ wrote[t] = {}
            /\ globals = entry[t]
            /\ udsa_initialized = 0

\* A call whose FindClass returned NULL has reached its return.
C4_Witness ==
    \E t \in Threads :
        pc[t] = "ret" /\ nullAt[t] = "FindClass" /\ guardFlag[t] = 0

\* C5: when FindClass and NewGlobalRef succeed and GetFieldID returns NULL,
\* that call never attempts GetMethodID, udsa_initialized is still 0 when
\* it returns, and udsa_class still holds the global reference the call
\* created, which is still alive (no rollback).
C5_FieldLookupFailure ==
    \A t \in Threads :
        (InCall(t) /\ nullAt[t] = "GetFieldID") =>
            /\ pc[t] \in {"L55", "ret"}
            /\ trace[t] = <<"FindClass", "NewGlobalRef", "GetFieldID">>
            /\ wrote[t] = {"udsa_class", "udsa_pathID"}
            /\ udsa_initialized = 0
            /\ udsa_class # NULL
            /\ udsa_class = rclass[t]
            /\ udsa_class \in globalRefs
            /\ udsa_ctorID = entry[t][2]

\* A call whose GetFieldID returned NULL has reached its return.
C5_Witness ==
    \E t \in Threads :
        /\ pc[t] = "ret"
        /\ nullAt[t] = "GetFieldID"
        /\ udsa_class # NULL
        /\ udsa_pathID = NULL

\* C6: a call made with the flag 0 in which no JNI function returns NULL
\* returns with udsa_initialized = 1 and the three handles non-null, after
\* FindClass, NewGlobalRef, GetFieldID, GetMethodID and the flag write in
\* this order; until the flag write the flag is 0.
C6_SuccessfulPath ==
    \A t \in Threads :
        /\ (pc[t] = "ret" /\ guardFlag[t] = 0 /\ nullAt[t] = "none") =>
               /\ trace[t] = FullSequence
               /\ udsa_initialized = 1
               /\ AllNonNull
               /\ wrote[t] = Handles
               /\ result[t] = "ok"
        /\ (InCall(t) /\ guardFlag[t] = 0) =>
               /\ IsPrefix(trace[t], FullSequence)
               /\ (pc[t] # "ret" => udsa_initialized = 0)

\* A call that found the flag 0 has run all five steps and is returning.
C6_Witness ==
    \E t \in Threads :
        /\ pc[t] = "ret"
        /\ guardFlag[t] = 0
        /\ nullAt[t] = "none"
        /\ trace[t] = FullSequence

\* C7 as stated: over sequential calls whose lookups may fail, each of
\* udsa_class, udsa_pathID, udsa_ctorID is assigned at most once, and
\* udsa_initialized never goes from 1 back to 0.
C7_AssignedAtMostOnce ==
    [][ /\ \A h \in Handles : writes'[h] <= 1
        /\ (udsa_initialized = 1 => udsa_initialized' = 1) ]_vars

\* C7 amended: udsa_initialized never goes from 1 back to 0 and once it is 1
\* no handle is assigned again; while it is 0 a handle is assigned at most
\* once per call that found the flag 0, and all but the last of those calls
\* failed, so a handle is assigned again only by a call after a failed one.
C7_NoAssignmentOnceInitialized ==
    [][ /\ (udsa_initialized = 1 =>
               /\ udsa_initialized' = 1
               /\ writes' = writes
               /\ handles' = handles
               /\ globalRefs' = globalRefs)
        /\ \A h \in Handles : writes'[h] <= passed'
        /\ passed' <= failed' + 1 ]_vars

\* udsa_class was resolved twice before the flag was set, and a later call
\* has returned without touching anything.
C7_Witness ==
    /\ udsa_initialized = 1
    /\ writes["udsa_class"] = 2
    /\ \E t \in Threads : pc[t] = "ret" /\ result[t] = "noop"

\* C8 as stated: when threads call concurrently and every lookup succeeds,
\* each JNI function is invoked exactly once in total, and once all calls
\* have returned the flag is 1 and the three handles are non-null.
C8_ExactlyOneLookupSequence ==
    /\ \A f \in JNIFunctions : nLookups[f] <= 1
    /\ (calls >= NumThreads /\ \A t \in Threads : ~InCall(t)) =>
           /\ \A f \in JNIFunctions : nLookups[f] = 1
           /\ udsa_initialized = 1
           /\ AllNonNull

\* C8 amended: when K threads call concurrently and every lookup succeeds,
\* at least one and at most K lookup sequences are performed in total (one
\* per call that read the flag as 0, at most one per thread), and once all
\* calls have returned the flag is 1 and the three handles are non-null.
C8_AtMostOnePerThread ==
    /\ \A f \in JNIFunctions : nLookups[f] <= passed
    /\ passed <= NumThreads
    /\ udsa_initialized = 1 => AllNonNull
    /\ (calls >= 1 /\ \A t \in Threads : ~InCall(t)) =>
           /\ \A f \in JNIFunctions : nLookups[f] = passed
           /\ passed >= 1
           /\ udsa_initialized = 1
           /\ AllNonNull

\* Two overlapping first calls both ran the whole sequence and returned.
C8_Witness ==
    /\ \A t \in Threads : ~InCall(t)
    /\ \A f \in JNIFunctions : nLookups[f] = 2
    /\ udsa_initialized = 1
    /\ AllNonNull

\* C9: in every interleaving of overlapping calls whose JNI functions may
\* each return NULL, a state with udsa_initialized = 1 has udsa_class,
\* udsa_pathID and udsa_ctorID all non-null.
C9_ConcurrentFlagImpliesHandles ==
    (calls >= 2 /\ udsa_initialized = 1) =>
        (udsa_class # NULL /\ udsa_pathID # NULL /\ udsa_ctorID # NULL)

\* C10: after a call that failed udsa_initialized is 0; the next call in
\* sequence starts again at FindClass and runs the steps in the full order,
\* and when none of its four JNI functions returns NULL it sets the flag.
C10_RestartAfterFailure ==
    \A t \in Threads :
        /\ (pc[t] = "ret" /\ result[t] = "fail") =>
               /\ udsa_initialized = 0
               /\ nullAt[t] # "none"
        /\ (InCall(t) /\ afterFail[t]) =>
               /\ entry[t][4] = 0
               /\ guardFlag[t] \in {0, 2}
               /\ IsPrefix(trace[t], FullSequence)
               /\ (pc[t] \notin {"L48", "L49"} => trace[t] # <<>>)
               /\ (pc[t] = "ret" /\ nullAt[t] = "none") =>
                      /\ trace[t] = FullSequence
                      /\ udsa_initialized = 1

\* The call after one that failed past NewGlobalRef succeeds.
C10_Witness ==
    \E t \in Threads :
        /\ pc[t] = "ret"
        /\ afterFail[t]
        /\ entry[t][1] # NULL
        /\ nullAt[t] = "none"
        /\ udsa_initialized = 1

====
